---- MODULE Spec2Model ----
(***************************************************************************)
(* Stock ledger of the inventory service (inventory + reservations tables) *)
(* and the ReserveStock / ReleaseStock / CheckStock operations that the    *)
(* gRPC server reaches through inventoryService and inventoryRepository.   *)
(*                                                                         *)
(* The order service (orders table, CreateOrder saga, GetOrder) calls the   *)
(* inventory service through inventoryClient.                              *)
(*                                                                         *)
(* The specifications share the ledger operators:                          *)
(*   SeqSpec   calls run one after another (each action is one whole       *)
(*             call); history variables keep the ledger before the last    *)
(*             call and the call before it, for the two-call contracts.    *)
(*   QuerySpec SeqSpec with the read-only CheckStock call.                 *)
(*   Spec      two request workers run calls concurrently, one SQL         *)
(*             transaction each, with the row lock of SELECT ... FOR       *)
(*             UPDATE and the serialization failures of SERIALIZABLE.      *)
(*   SagaSpec  one CreateOrder call of the order service, step by step     *)
(*             through its outbound calls, each of which can fail.         *)
(*   RaceSpec  two CreateOrder calls run concurrently, their Reserve and   *)
(*             Release calls as the concurrent transactions of Spec.       *)
(*   LateSpec  one CreateOrder call whose Reserve requests can arrive at   *)
(*             the inventory service after the client has given up.        *)
(*   NarrowSpec one CreateOrder call with quantities beyond the range of   *)
(*             the 32-bit types (scaled down to Int32Bits bits).           *)
(***************************************************************************)
EXTENDS Integers, FiniteSets, Sequences, TLC

\* Largest quantity a request carries.
MaxQty == 2
\* Largest seeded stock of product "A".
MaxStock == 3
\* Width in bits of the narrow integer types (Go's int32, the INT columns),
\* scaled down from 32 so that values beyond it can be enumerated; Go's int
\* and the wide values of a request are unbounded integers here.
Int32Bits == 3

\* Product ids.  "A" and "B" have an inventory row, "N" has none.
Products == {"A", "B", "N"}
Stocked == {"A", "B"}
\* Order ids.
Orders == {"X", "Y"}
\* Request workers of the concurrent specification.
Workers == {"w1", "w2"}

VARIABLES
    inventory,      \* inventory table: product_id -> [quantity, reserved]
    reservations,   \* reservations table: <<order_id, product_id>> -> quantity
    last,           \* SeqSpec: the last call and its outcome
    pre,            \* SeqSpec: the ledger before the last call
    prior,          \* SeqSpec: the call before the last one, if it was for the
                    \*          same order and product as the last one
    pc,             \* Spec: position of each worker in its call
    call,           \* Spec: the call each worker runs
    res,            \* Spec: outcome of each worker's call
    stale,          \* Spec: the row a worker waits for was updated and committed
    ssi,            \* Spec: a concurrent transaction committed writes meanwhile
    scan,           \* Spec: the values the locking SELECT scanned into locals
    inTx,           \* Spec: the call's outcome came from the repository transaction
    fresh,          \* Spec: no worker has started a second call yet
    orders,         \* SagaSpec: orders and order_items tables: id -> stored order
    saga,           \* SagaSpec: the CreateOrder call in progress and its locals
                    \* RaceSpec: the same for the CreateOrder call of each worker
    got             \* SagaSpec: what the last GetOrder call returned

vars == <<inventory, reservations, last, pre, prior, pc, call, res, stale, ssi, scan,
          inTx, fresh, orders, saga, got>>
ledgerVars == <<inventory, reservations>>
seqVars == <<last, pre, prior>>
conVars == <<pc, call, res, stale, ssi, scan, inTx, fresh>>
sagaVars == <<orders, saga, got>>

NoCall == [op |-> "none", p |-> "N", q |-> 0, o |-> "X", res |-> "none"]
NoRequest == [op |-> "none", p |-> "N", q |-> 0, o |-> "X"]

----------------------------------------------------------------------------
(* The ledger operators: what one statement sequence does to the tables.   *)

\* COALESCE((SELECT quantity FROM reservations WHERE order_id, product_id), 0)
ReservedBy(resv, o, p) ==
    IF <<o, p>> \in DOMAIN resv THEN resv[<<o, p>>] ELSE 0

\* INSERT ... ON CONFLICT(order_id, product_id) DO UPDATE SET quantity
Upsert(resv, o, p, q) ==
    [k \in (DOMAIN resv) \cup {<<o, p>>} |-> IF k = <<o, p>> THEN q ELSE resv[k]]

\* DELETE FROM reservations WHERE order_id AND product_id
DeleteRow(resv, o, p) ==
    [k \in (DOMAIN resv) \ {<<o, p>>} |-> resv[k]]

\* Faulty variant: the UPDATE has no WHERE clause.
MutAddReservedEveryRow(inv, p, d) ==
    [r \in DOMAIN inv |-> [inv[r] EXCEPT !.reserved = @ + d]]

\* UPDATE inventory SET reserved = reserved + d WHERE product_id = p
AddReserved(inv, p, d) ==
    [inv EXCEPT ![p].reserved = @ + d]

Outcome(r, inv, resv) == [res |-> r, inventory |-> inv, reservations |-> resv]

\* Faulty variant of CheckStock: only the reservations of confirmed orders
\* count against the stock.
MutCheckStockConfirmedOnly(inv, p, q) ==
    IF p \notin DOMAIN inv
    THEN FALSE
    ELSE LET held(o) == IF o \in DOMAIN orders /\ orders[o].status = "confirmed"
                        THEN ReservedBy(reservations, o, p)
                        ELSE 0
         IN  inv[p].quantity - (held("X") + held("Y")) >= q

\* Faulty variant of CheckStock: the reserved units count as available.
MutCheckStockIgnoresReserved(inv, p, q) ==
    IF p \notin DOMAIN inv
    THEN FALSE
    ELSE inv[p].quantity >= q

\* inventoryRepository.CheckStock: false (no error) when the row is absent.
CheckStock(inv, p, q) ==
    IF p \notin DOMAIN inv
    THEN FALSE
    ELSE inv[p].quantity - inv[p].reserved >= q

\* row.Scan of the locking SELECT: the inventory row of p and, for ReleaseStock,
\* the COALESCEd reservation of the order; found = FALSE is sql.ErrNoRows.
NoScan == [found |-> FALSE, quantity |-> 0, reserved |-> 0, byOrder |-> 0]

ScanRow(inv, resv, p, o) ==
    IF p \notin DOMAIN inv
    THEN NoScan
    ELSE [found |-> TRUE, quantity |-> inv[p].quantity,
          reserved |-> inv[p].reserved, byOrder |-> ReservedBy(resv, o, p)]

----------------------------------------------------------------------------
(* Faulty variants of the repository code, used to show that the checked   *)
(* properties depend on the code they are about.                            *)

\* ReserveStock that adds the requested quantity instead of the delta.
MutReserveAdditive(row, inv, resv, p, q, o) ==
    IF ~row.found
    THEN Outcome("NotFound", inv, resv)
    ELSE IF row.quantity - row.reserved < q
         THEN Outcome("InsufficientStock", inv, resv)
         ELSE Outcome("ok", AddReserved(inv, p, q), Upsert(resv, o, p, q))

\* ReserveStock without the "delta < 0" refusal: a smaller request shrinks.
MutReserveNoDeltaCheck(row, inv, resv, p, q, o) ==
    IF ~row.found
    THEN Outcome("NotFound", inv, resv)
    ELSE IF row.quantity - row.reserved < q
         THEN Outcome("InsufficientStock", inv, resv)
         ELSE Outcome("ok",
                      AddReserved(inv, p, q - ReservedBy(resv, o, p)),
                      Upsert(resv, o, p, q))

\* ReserveStock that answers a smaller request with a silent success.
MutReserveClampDelta(row, inv, resv, p, q, o) ==
    IF ~row.found
    THEN Outcome("NotFound", inv, resv)
    ELSE IF row.quantity - row.reserved < q
         THEN Outcome("InsufficientStock", inv, resv)
         ELSE LET delta == q - ReservedBy(resv, o, p)
              IN  IF delta < 0
                  THEN Outcome("ok", inv, resv)
                  ELSE Outcome("ok",
                               IF delta > 0 THEN AddReserved(inv, p, delta) ELSE inv,
                               Upsert(resv, o, p, q))

\* ReserveStock without the availability check inside the transaction.
MutReserveNoAvailCheck(row, inv, resv, p, q, o) ==
    IF ~row.found
    THEN Outcome("NotFound", inv, resv)
    ELSE LET delta == q - ReservedBy(resv, o, p)
         IN  IF delta < 0
             THEN Outcome("InvalidReservation", inv, resv)
             ELSE Outcome("ok",
                          IF delta > 0 THEN AddReserved(inv, p, delta) ELSE inv,
                          Upsert(resv, o, p, q))

\* ReserveStock that compares the available stock with the delta.
MutReserveDeltaAvail(row, inv, resv, p, q, o) ==
    IF ~row.found
    THEN Outcome("NotFound", inv, resv)
    ELSE LET delta == q - ReservedBy(resv, o, p)
         IN  IF row.quantity - row.reserved < delta
             THEN Outcome("InsufficientStock", inv, resv)
             ELSE IF delta < 0
                  THEN Outcome("InvalidReservation", inv, resv)
                  ELSE Outcome("ok",
                               IF delta > 0 THEN AddReserved(inv, p, delta) ELSE inv,
                               Upsert(resv, o, p, q))

\* ReleaseStock that checks the product's reserved counter, not the order's
\* holding, and releases the full requested quantity.
MutReleaseUncapped(row, inv, resv, p, q, o) ==
    IF ~row.found
    THEN Outcome("NotFound", inv, resv)
    ELSE IF row.reserved < q
         THEN Outcome("InvalidRelease", inv, resv)
         ELSE Outcome("ok",
                      AddReserved(inv, p, 0 - q),
                      IF row.byOrder - q > 0
                      THEN Upsert(resv, o, p, row.byOrder - q)
                      ELSE DeleteRow(resv, o, p))

\* ReleaseStock that refuses a release larger than the order's holding.
MutReleaseStrict(row, inv, resv, p, q, o) ==
    IF ~row.found
    THEN Outcome("NotFound", inv, resv)
    ELSE IF row.byOrder < q
         THEN Outcome("InvalidRelease", inv, resv)
         ELSE Outcome("ok",
                      AddReserved(inv, p, 0 - q),
                      IF row.byOrder - q > 0
                      THEN Upsert(resv, o, p, row.byOrder - q)
                      ELSE DeleteRow(resv, o, p))

\* ReleaseStock that caps the release by the product's reserved counter, not
\* by the order's reservation.
MutReleaseCapByProduct(row, inv, resv, p, q, o) ==
    IF ~row.found
    THEN Outcome("NotFound", inv, resv)
    ELSE LET releaseAmount == IF q > row.reserved THEN row.reserved ELSE q
         IN  IF releaseAmount <= 0
             THEN Outcome("ok", inv, resv)
             ELSE Outcome("ok",
                          AddReserved(inv, p, 0 - releaseAmount),
                          IF row.byOrder - releaseAmount > 0
                          THEN Upsert(resv, o, p, row.byOrder - releaseAmount)
                          ELSE DeleteRow(resv, o, p))

\* ReleaseStock that updates the reservation row to the remainder, also when
\* nothing remains (no DELETE).
MutReleaseNoDelete(row, inv, resv, p, q, o) ==
    IF ~row.found
    THEN Outcome("NotFound", inv, resv)
    ELSE LET releaseAmount == IF q > row.byOrder THEN row.byOrder ELSE q
         IN  IF releaseAmount <= 0
             THEN Outcome("ok", inv, resv)
             ELSE Outcome("ok",
                          AddReserved(inv, p, 0 - releaseAmount),
                          Upsert(resv, o, p, row.byOrder - releaseAmount))

\* ReleaseStock that lowers the reserved counter and leaves the reservation
\* row as it was.
MutReleaseKeepsRow(row, inv, resv, p, q, o) ==
    IF ~row.found
    THEN Outcome("NotFound", inv, resv)
    ELSE LET releaseAmount == IF q > row.byOrder THEN row.byOrder ELSE q
         IN  IF releaseAmount <= 0
             THEN Outcome("ok", inv, resv)
             ELSE Outcome("ok", AddReserved(inv, p, 0 - releaseAmount), resv)

----------------------------------------------------------------------------
\* inventoryRepository.ReserveStock after the locking SELECT scanned row:
\* availability check, delta against the previous reservation, UPDATE, upsert.
ReserveAfterScan(row, inv, resv, p, q, o) ==
    IF ~row.found
    THEN Outcome("NotFound", inv, resv)
    ELSE LET available == row.quantity - row.reserved
         IN  IF available < q
             THEN Outcome("InsufficientStock", inv, resv)
             ELSE LET previousReserved == ReservedBy(resv, o, p)
                      delta == q - previousReserved
                  IN  IF delta < 0
                      THEN Outcome("InvalidReservation", inv, resv)
                      ELSE Outcome("ok",
                                   IF delta > 0 THEN AddReserved(inv, p, delta) ELSE inv,
                                   Upsert(resv, o, p, q))

\* inventoryRepository.ReleaseStock after the locking SELECT scanned row:
\* capped release amount, no-op return, UPDATE, then UPDATE or DELETE of the row.
ReleaseAfterScan(row, inv, resv, p, q, o) ==
    IF ~row.found
    THEN Outcome("NotFound", inv, resv)
    ELSE LET reservedByOrder == row.byOrder
             releaseAmount == IF q > reservedByOrder THEN reservedByOrder ELSE q
         IN  IF releaseAmount <= 0
             THEN Outcome("ok", inv, resv)
             ELSE LET remaining == reservedByOrder - releaseAmount
                  IN  Outcome("ok",
                              AddReserved(inv, p, 0 - releaseAmount),
                              IF remaining > 0
                              THEN Upsert(resv, o, p, remaining)
                              ELSE DeleteRow(resv, o, p))

\* The whole repository transaction when nothing runs between its statements.
ReserveStock(inv, resv, p, q, o) ==
    ReserveAfterScan(ScanRow(inv, resv, p, o), inv, resv, p, q, o)

ReleaseStock(inv, resv, p, q, o) ==
    ReleaseAfterScan(ScanRow(inv, resv, p, o), inv, resv, p, q, o)

\* inventoryService: the argument validation of ReserveStock and ReleaseStock.
ValidArgs(p, q, o) == p /= "" /\ q > 0 /\ o /= ""

\* inventoryService.ReserveStock: validate, CheckStock, then the repository.
SvcReserveStock(inv, resv, p, q, o) ==
    IF ~ValidArgs(p, q, o)
    THEN Outcome("ValidationError", inv, resv)
    ELSE IF ~CheckStock(inv, p, q)
         THEN Outcome("InsufficientStock", inv, resv)
         ELSE ReserveStock(inv, resv, p, q, o)

\* inventoryService.CheckStock: validate, then the repository's answer.
SvcCheckStock(inv, p, q) ==
    IF p = "" \/ q <= 0
    THEN "ValidationError"
    ELSE IF CheckStock(inv, p, q) THEN "true" ELSE "false"

\* inventoryService.ReleaseStock: validate, then the repository.
SvcReleaseStock(inv, resv, p, q, o) ==
    IF ~ValidArgs(p, q, o)
    THEN Outcome("ValidationError", inv, resv)
    ELSE ReleaseStock(inv, resv, p, q, o)

----------------------------------------------------------------------------
(* Initial ledger: the seeded rows, reserved = 0, no reservation row.       *)

\* Product "A" is seeded with qa units and product "B" with one unit.
SeedLedger(qa) ==
    /\ inventory = [p \in Stocked |->
                      [quantity |-> IF p = "A" THEN qa ELSE 1, reserved |-> 0]]
    /\ reservations = <<>>

InitSeqVars ==
    /\ last = NoCall
    /\ pre = [inventory |-> inventory, reservations |-> reservations]
    /\ prior = NoCall

InitConVars ==
    /\ pc = [w \in Workers |-> "idle"]
    /\ call = [w \in Workers |-> NoRequest]
    /\ res = [w \in Workers |-> "none"]
    /\ stale = [w \in Workers |-> FALSE]
    /\ ssi = [w \in Workers |-> FALSE]
    /\ scan = [w \in Workers |-> NoScan]
    /\ inTx = [w \in Workers |-> FALSE]
    /\ fresh = TRUE

\* No order: the nil *repository.Order of an error return.
NoOrder == [id |-> "", userID |-> "", status |-> "", items |-> <<>>]

\* No CreateOrder call is in progress.
NoSaga ==
    [pc |-> "idle",
     req |-> [userID |-> "", items |-> <<>>],
     order |-> NoOrder,
     i |-> 0,
     reservationErrors |-> <<>>,
     calls |-> <<>>,
     before |-> [inventory |-> <<>>, reservations |-> <<>>, orders |-> <<>>],
     ret |-> [err |-> "none", order |-> NoOrder]]

\* No GetOrder call has returned yet.
NoResult == [err |-> "none", order |-> NoOrder]

InitSagaVars ==
    /\ orders = <<>>
    /\ saga = NoSaga
    /\ got = NoResult

Init == SeedLedger(MaxStock) /\ InitSeqVars /\ InitConVars /\ InitSagaVars

SeqInit ==
    /\ \E qa \in 1..MaxStock : SeedLedger(qa)
    /\ InitSeqVars /\ InitConVars /\ InitSagaVars

----------------------------------------------------------------------------
(* SeqSpec: one whole call per step.                                        *)

Record(op, p, q, o, out) ==
    /\ inventory' = out.inventory
    /\ reservations' = out.reservations
    /\ prior' = IF last.p = p /\ last.o = o THEN last ELSE NoCall
    /\ pre' = [inventory |-> inventory, reservations |-> reservations]
    /\ last' = [op |-> op, p |-> p, q |-> q, o |-> o, res |-> out.res]
    /\ UNCHANGED <<conVars, sagaVars>>

Reserve(p, q, o) ==
    Record("Reserve", p, q, o, SvcReserveStock(inventory, reservations, p, q, o))

Release(p, q, o) ==
    Record("Release", p, q, o, SvcReleaseStock(inventory, reservations, p, q, o))

SeqNext ==
    \E p \in Products, q \in 0..MaxQty, o \in Orders :
        \/ Reserve(p, q, o)
        \/ Release(p, q, o)

SeqSpec == SeqInit /\ [][SeqNext]_vars

\* QuerySpec: SeqSpec with the read-only CheckStock call among the calls.
Check(p, q) ==
    Record("Check", p, q, "", Outcome(SvcCheckStock(inventory, p, q),
                                      inventory, reservations))

QueryNext ==
    \/ SeqNext
    \/ \E p \in Products, q \in 0..MaxQty : Check(p, q)

QuerySpec == SeqInit /\ [][QueryNext]_vars

----------------------------------------------------------------------------
(* Spec: concurrent calls, one worker per inbound request.  Each call is    *)
(* the service method followed by one SERIALIZABLE transaction whose first  *)
(* statement is SELECT ... FOR UPDATE on the inventory row of the product.  *)

Others(w) == Workers \ {w}

\* The orders whose requests a worker carries.  Up to renaming the orders,
\* every pair of concurrent requests (same order, different orders) occurs.
OrdersOf(w) == IF w = "w1" THEN Orders ELSE {"Y"}

\* Faulty variant: the SELECT takes no row lock (no FOR UPDATE).
MutRowNeverLocked(p, w) == FALSE

\* Another transaction holds the row lock that FOR UPDATE asks for.
RowLocked(p, w) ==
    \E v \in Others(w) : pc[v] = "locked" /\ call[v].p = p

\* Faulty variant: ReserveStock goes to the repository without CheckStock.
MutServiceNoPreCheck(w, op, p, q, o) ==
    /\ pc[w] \in {"idle", "done"}
    /\ call' = [call EXCEPT ![w] = [op |-> op, p |-> p, q |-> q, o |-> o]]
    /\ LET r == IF ~ValidArgs(p, q, o) THEN "ValidationError" ELSE "none"
       IN  /\ pc' = [pc EXCEPT ![w] = IF r = "none" THEN "begin" ELSE "done"]
           /\ res' = [res EXCEPT ![w] = r]
    /\ inTx' = [inTx EXCEPT ![w] = FALSE]
    /\ fresh' = (fresh /\ pc[w] = "idle")
    /\ UNCHANGED <<ledgerVars, seqVars, sagaVars, stale, ssi, scan>>

\* A request arrives and inventoryService.ReserveStock / ReleaseStock runs up
\* to the repository call: validation, and for ReserveStock the unlocked
\* CheckStock query.
Service(w, op, p, q, o) ==
    /\ pc[w] \in {"idle", "done"}
    /\ call' = [call EXCEPT ![w] = [op |-> op, p |-> p, q |-> q, o |-> o]]
    /\ LET r == IF ~ValidArgs(p, q, o) THEN "ValidationError"
                ELSE IF op = "Reserve" /\ ~CheckStock(inventory, p, q)
                     THEN "InsufficientStock"
                     ELSE "none"
       IN  /\ pc' = [pc EXCEPT ![w] = IF r = "none" THEN "begin" ELSE "done"]
           /\ res' = [res EXCEPT ![w] = r]
    /\ inTx' = [inTx EXCEPT ![w] = FALSE]
    /\ fresh' = (fresh /\ pc[w] = "idle")
    /\ UNCHANGED <<ledgerVars, seqVars, sagaVars, stale, ssi, scan>>

\* BeginTx and the locking SELECT is issued: it takes the row lock and scans
\* the row, or blocks behind the transaction that holds the lock.
SelectForUpdate(w) ==
    /\ pc[w] = "begin"
    /\ IF RowLocked(call[w].p, w)
       THEN /\ pc' = [pc EXCEPT ![w] = "wait"]
            /\ UNCHANGED scan
       ELSE /\ pc' = [pc EXCEPT ![w] = "locked"]
            /\ scan' = [scan EXCEPT ![w] =
                            ScanRow(inventory, reservations, call[w].p, call[w].o)]
    /\ stale' = [stale EXCEPT ![w] = FALSE]
    /\ ssi' = [ssi EXCEPT ![w] = FALSE]
    /\ UNCHANGED <<ledgerVars, seqVars, sagaVars, call, res, inTx, fresh>>

\* The lock holder is gone and the blocked SELECT resumes: if the row was
\* updated by a transaction that committed meanwhile, SERIALIZABLE fails the
\* statement (row.Scan returns the error); if the holder rolled back or only
\* locked the row, the SELECT locks and scans it.
Resume(w) ==
    /\ pc[w] = "wait"
    /\ ~RowLocked(call[w].p, w)
    /\ IF stale[w]
       THEN /\ pc' = [pc EXCEPT ![w] = "done"]
            /\ res' = [res EXCEPT ![w] = "TransactionConflict"]
            /\ inTx' = [inTx EXCEPT ![w] = TRUE]
            /\ ssi' = [ssi EXCEPT ![w] = FALSE]
            /\ UNCHANGED scan
       ELSE /\ pc' = [pc EXCEPT ![w] = "locked"]
            /\ scan' = [scan EXCEPT ![w] =
                            ScanRow(inventory, reservations, call[w].p, call[w].o)]
            /\ UNCHANGED <<res, inTx, ssi>>
    /\ stale' = [stale EXCEPT ![w] = FALSE]
    /\ UNCHANGED <<ledgerVars, seqVars, sagaVars, call, fresh>>

\* What the rest of the transaction of w does to the tables as they are now.
TxOutcome(w) ==
    LET c == call[w]
    IN  IF c.op = "Reserve"
        THEN ReserveAfterScan(scan[w], inventory, reservations, c.p, c.q, c.o)
        ELSE ReleaseAfterScan(scan[w], inventory, reservations, c.p, c.q, c.o)

\* The transaction of w executes an UPDATE, INSERT or DELETE before it ends.
Writes(w) ==
    LET c == call[w]
        out == TxOutcome(w)
    IN  /\ out.res = "ok"
        /\ (c.op = "Release" => out.inventory /= inventory)

\* The statements after the locking SELECT, then Commit (or the deferred
\* Rollback on an error return or on the no-op return of ReleaseStock).
Finish(w) ==
    /\ pc[w] = "locked"
    /\ LET out == TxOutcome(w)
           p == call[w].p
       IN  /\ inventory' = out.inventory
           /\ reservations' = out.reservations
           /\ res' = [res EXCEPT ![w] = out.res]
           /\ stale' = [v \in Workers |->
                          IF v /= w /\ pc[v] = "wait" /\ call[v].p = p
                                   /\ out.inventory /= inventory
                          THEN TRUE ELSE stale[v]]
           /\ ssi' = [v \in Workers |->
                        IF v = w THEN FALSE
                        ELSE IF pc[v] \in {"wait", "locked"} /\ Writes(w)
                             THEN TRUE ELSE ssi[v]]
    /\ pc' = [pc EXCEPT ![w] = "done"]
    /\ inTx' = [inTx EXCEPT ![w] = TRUE]
    /\ scan' = [scan EXCEPT ![w] = NoScan]
    /\ UNCHANGED <<seqVars, sagaVars, call, fresh>>

\* Faulty variant: the UPDATE of the inventory row runs outside the
\* transaction, so the serialization failure rolls back only the rest.
MutFinishConflictPartial(w) ==
    /\ pc[w] = "locked"
    /\ ssi[w]
    /\ Writes(w)
    /\ inventory' = TxOutcome(w).inventory
    /\ pc' = [pc EXCEPT ![w] = "done"]
    /\ res' = [res EXCEPT ![w] = "TransactionConflict"]
    /\ inTx' = [inTx EXCEPT ![w] = TRUE]
    /\ scan' = [scan EXCEPT ![w] = NoScan]
    /\ ssi' = [ssi EXCEPT ![w] = FALSE]
    /\ UNCHANGED <<reservations, seqVars, sagaVars, call, stale, fresh>>

\* A writing transaction whose snapshot predates the commit of another
\* writer can be aborted with a serialization failure instead of committing
\* (SERIALIZABLE: concurrent update of the reservation row, or a read/write
\* dependency on the reservations table).
FinishConflict(w) ==
    /\ pc[w] = "locked"
    /\ ssi[w]
    /\ Writes(w)
    /\ pc' = [pc EXCEPT ![w] = "done"]
    /\ res' = [res EXCEPT ![w] = "TransactionConflict"]
    /\ inTx' = [inTx EXCEPT ![w] = TRUE]
    /\ scan' = [scan EXCEPT ![w] = NoScan]
    /\ ssi' = [ssi EXCEPT ![w] = FALSE]
    /\ UNCHANGED <<ledgerVars, seqVars, sagaVars, call, stale, fresh>>

Next ==
    \E w \in Workers :
        \/ \E op \in {"Reserve", "Release"}, p \in Stocked, o \in OrdersOf(w) :
               \E q \in 1..(IF p = "A" THEN MaxQty ELSE 1) : Service(w, op, p, q, o)
        \/ SelectForUpdate(w)
        \/ Resume(w)
        \/ Finish(w)
        \/ FinishConflict(w)

Spec == Init /\ [][Next]_vars

----------------------------------------------------------------------------
(* SagaSpec: the order service, its calls running one after another.        *)
(* CreateOrder runs as a sequence of steps, one per outbound call (the      *)
(* orders store, the inventory service); the inventory service processes    *)
(* each delivered request as one whole call.                                *)

\* Largest number of line items of a request.
MaxItems == 2

UserIDs == {"", "u1"}

\* Line items: every item that passes validation, and one item for each
\* way of failing it.
OrderItemRequest ==
    [productID : Stocked, quantity : 1..MaxQty, price : {5, 1000}]
    \cup {[productID |-> "", quantity |-> 1, price |-> 1000],
          [productID |-> "A", quantity |-> 0, price |-> 1000],
          [productID |-> "A", quantity |-> -1, price |-> 1000],
          [productID |-> "A", quantity |-> 1, price |-> 0],
          [productID |-> "A", quantity |-> 1, price |-> -5]}

CreateOrderRequest ==
    [userID : UserIDs,
     items : UNION {[1..n -> OrderItemRequest] : n \in 0..MaxItems}]

\* Faulty variant of validateCreateOrderRequest: only the first item is
\* inspected.
MutValidateFirstItem(req) ==
    IF req.userID = ""
    THEN "ValidationError"
    ELSE IF Len(req.items) = 0
         THEN "ValidationError"
         ELSE IF \/ req.items[1].productID = ""
                 \/ req.items[1].quantity <= 0
                 \/ req.items[1].price <= 0
              THEN "ValidationError"
              ELSE "nil"

\* validateCreateOrderRequest: "nil" or the validation error.
validateCreateOrderRequest(req) ==
    IF req.userID = ""
    THEN "ValidationError"
    ELSE IF Len(req.items) = 0
         THEN "ValidationError"
         ELSE IF \E i \in 1..Len(req.items) :
                     \/ req.items[i].productID = ""
                     \/ req.items[i].quantity <= 0
                     \/ req.items[i].price <= 0
              THEN "ValidationError"
              ELSE "nil"

\* The range of a narrow integer.
MinInt32 == 0 - 2^(Int32Bits - 1)
MaxInt32 == 2^(Int32Bits - 1) - 1

\* Go's conversion int32(quantity): the low bits, in two's complement.
Int32(q) == ((q + 2^(Int32Bits - 1)) % 2^Int32Bits) - 2^(Int32Bits - 1)

\* Faulty variant: the quantity column is wide (BIGINT).
MutInt4AlwaysFits(order) == TRUE

\* The INSERT INTO order_items succeeds only if every quantity fits the
\* column  quantity INT; otherwise Create fails with "integer out of range".
Int4Fits(order) ==
    \A i \in DOMAIN order.items :
        order.items[i].quantity \in MinInt32..MaxInt32

\* The value a price takes in the column  price DECIMAL(10, 2): rounded to
\* two decimals, half away from zero (prices that reach the store are > 0).
Decimal2(price) == ((price + 5) \div 10) * 10

\* orderRepository.Create: INSERT INTO orders, then one INSERT INTO
\* order_items per item, in one transaction.
Create(store, order) ==
    [o \in (DOMAIN store) \cup {order.id} |->
        IF o = order.id
        THEN [userID |-> order.userID,
              status |-> order.status,
              items |-> [i \in 1..Len(order.items) |->
                            [order.items[i] EXCEPT !.price = Decimal2(@)]]]
        ELSE store[o]]

\* Faulty variant of orderRepository.Update: it also rewrites the order_items
\* rows from the order it is given.
MutUpdateRewritesItems(store, order) ==
    [o \in DOMAIN store |->
        IF o = order.id
        THEN [store[o] EXCEPT !.userID = order.userID, !.status = order.status,
                              !.items = order.items]
        ELSE store[o]]

\* Faulty variant of orderRepository.Update: the UPDATE has no WHERE clause.
MutUpdateEveryRow(store, order) ==
    [o \in DOMAIN store |->
        [store[o] EXCEPT !.userID = order.userID, !.status = order.status]]

\* orderRepository.Update: UPDATE orders SET user_id, status WHERE id.
Update(store, order) ==
    [o \in DOMAIN store |->
        IF o = order.id
        THEN [store[o] EXCEPT !.userID = order.userID, !.status = order.status]
        ELSE store[o]]

\* orderRepository.GetByID: the orders row and its order_items rows.
GetByID(store, id) ==
    IF id \notin DOMAIN store
    THEN [err |-> "NotFound", order |-> NoOrder]
    ELSE [err |-> "nil",
          order |-> [id |-> id,
                     userID |-> store[id].userID,
                     status |-> store[id].status,
                     items |-> store[id].items]]
\* What becomes of one request sent to the inventory service: delivered and
\* answered in time; not delivered (connection failure, or the deadline passes
\* before the server runs it); or run by the server while the answer misses
\* the client's five-second deadline.
NetOutcomes == {"delivered", "unreachable", "timeout"}

\* inventoryClient.ReserveStock: nil ("ok") or the error the client returns,
\* with the ledger the call leaves behind.  The request carries
\* int32(quantity).
ClientReserveStock(inv, resv, p, q, o, net) ==
    IF net = "unreachable"
    THEN Outcome("PeerUnavailable", inv, resv)
    ELSE LET out == SvcReserveStock(inv, resv, p, Int32(q), o)
         IN  IF net = "timeout"
             THEN Outcome("Timeout", out.inventory, out.reservations)
             ELSE out

\* inventoryClient.ReleaseStock.
ClientReleaseStock(inv, resv, p, q, o, net) ==
    IF net = "unreachable"
    THEN Outcome("PeerUnavailable", inv, resv)
    ELSE LET out == SvcReleaseStock(inv, resv, p, Int32(q), o)
         IN  IF net = "timeout"
             THEN Outcome("Timeout", out.inventory, out.reservations)
             ELSE out

\* The record of one outbound call of CreateOrder: the request as the
\* inventory service gets it (the quantity narrowed by the client) and the
\* error the caller got ("ok" for nil, "discarded" where the caller assigns
\* the error to _).
Request(op, item, o, r) ==
    [op |-> op, p |-> item.productID, q |-> Int32(item.quantity), o |-> o, res |-> r]

\* An earlier order "Y" of one unit of "A" is confirmed and holds its stock.
SagaInit ==
    /\ LET seed == [p \in Stocked |->
                      [quantity |-> IF p = "A" THEN MaxStock ELSE 1, reserved |-> 0]]
           out == SvcReserveStock(seed, <<>>, "A", 1, "Y")
       IN  /\ inventory = out.inventory
           /\ reservations = out.reservations
    /\ orders = Create(<<>>, [id |-> "Y", userID |-> "u1", status |-> "confirmed",
                              items |-> <<[productID |-> "A", quantity |-> 1,
                                           price |-> 1000]>>])
    /\ saga = NoSaga
    /\ got = NoResult
    /\ InitSeqVars
    /\ InitConVars

\* The tables as a CreateOrder call finds them.
Snapshot ==
    [inventory |-> inventory, reservations |-> reservations, orders |-> orders]

\* CreateOrder up to its first Reserve call: validation, the order built with
\* status pending, orderRepo.Create.  id is the UUID that Create generates;
\* dbOk says whether the INSERT transaction commits, which it cannot when a
\* quantity does not fit its column.
CreateOrder(req, id, dbOk) ==
    /\ saga.pc = "idle"
    /\ id \notin DOMAIN orders
    /\ IF validateCreateOrderRequest(req) /= "nil"
       THEN /\ saga' = [saga EXCEPT !.pc = "returned", !.req = req,
                                    !.before = Snapshot,
                                    !.ret = [err |-> "ValidationError", order |-> NoOrder]]
            /\ UNCHANGED orders
       ELSE LET order == [id |-> id,
                          userID |-> req.userID,
                          status |-> "pending",
                          items |-> [i \in 1..Len(req.items) |->
                                        [productID |-> req.items[i].productID,
                                         quantity |-> req.items[i].quantity,
                                         price |-> req.items[i].price]]]
            IN  IF ~dbOk \/ ~Int4Fits(order)
                THEN /\ saga' = [saga EXCEPT !.pc = "returned", !.req = req,
                                             !.before = Snapshot,
                                             !.ret = [err |-> "CreateFailed",
                                                      order |-> NoOrder]]
                     /\ UNCHANGED orders
                ELSE /\ orders' = Create(orders, order)
                     /\ saga' = [saga EXCEPT !.pc = "reserve", !.req = req,
                                             !.order = order, !.i = 1,
                                             !.before = Snapshot]
    /\ UNCHANGED <<ledgerVars, seqVars, conVars, got>>

\* Faulty variant of the reservation loop: it stops at the first error.
MutReserveStopsAtError(net) ==
    /\ saga.pc = "reserve"
    /\ LET item == saga.order.items[saga.i]
           out == ClientReserveStock(inventory, reservations, item.productID,
                                     item.quantity, saga.order.id, net)
           errs == IF out.res = "ok"
                   THEN saga.reservationErrors
                   ELSE Append(saga.reservationErrors, out.res)
           more == saga.i < Len(saga.order.items) /\ out.res = "ok"
       IN  /\ inventory' = out.inventory
           /\ reservations' = out.reservations
           /\ saga' = [saga EXCEPT
                         !.reservationErrors = errs,
                         !.calls = Append(@, Request("Reserve", item, saga.order.id, out.res)),
                         !.i = IF more THEN @ + 1 ELSE 1,
                         !.pc = IF more THEN "reserve"
                                ELSE IF Len(errs) > 0 THEN "release" ELSE "update"]
    /\ UNCHANGED <<seqVars, conVars, orders, got>>

\* One round of the reservation loop: ReserveStock for item i, its error
\* appended to reservationErrors.
ReserveItem(net) ==
    /\ saga.pc = "reserve"
    /\ LET item == saga.order.items[saga.i]
           out == ClientReserveStock(inventory, reservations, item.productID,
                                     item.quantity, saga.order.id, net)
           errs == IF out.res = "ok"
                   THEN saga.reservationErrors
                   ELSE Append(saga.reservationErrors, out.res)
           more == saga.i < Len(saga.order.items)
       IN  /\ inventory' = out.inventory
           /\ reservations' = out.reservations
           /\ saga' = [saga EXCEPT
                         !.reservationErrors = errs,
                         !.calls = Append(@, Request("Reserve", item, saga.order.id, out.res)),
                         !.i = IF more THEN @ + 1 ELSE 1,
                         !.pc = IF more THEN "reserve"
                                ELSE IF Len(errs) > 0 THEN "release" ELSE "update"]
    /\ UNCHANGED <<seqVars, conVars, orders, got>>

\* Faulty variant of the compensation loop: it releases only the items whose
\* own Reserve succeeded.
MutReleaseReservedOnly(net) ==
    /\ saga.pc = "release"
    /\ LET item == saga.order.items[saga.i]
           skip == saga.calls[saga.i].res /= "ok"
           out == IF skip
                  THEN Outcome("ok", inventory, reservations)
                  ELSE ClientReleaseStock(inventory, reservations, item.productID,
                                          item.quantity, saga.order.id, net)
           more == saga.i < Len(saga.order.items)
       IN  /\ inventory' = out.inventory
           /\ reservations' = out.reservations
           /\ saga' = [saga EXCEPT
                         !.calls = IF skip THEN @
                                   ELSE Append(@, Request("Release", item,
                                                          saga.order.id, "discarded")),
                         !.i = IF more THEN @ + 1 ELSE 1,
                         !.pc = IF more THEN "release" ELSE "update"]
    /\ UNCHANGED <<seqVars, conVars, orders, got>>

\* One round of the compensation loop: ReleaseStock for item i, its error
\* discarded.
ReleaseItem(net) ==
    /\ saga.pc = "release"
    /\ LET item == saga.order.items[saga.i]
           out == ClientReleaseStock(inventory, reservations, item.productID,
                                     item.quantity, saga.order.id, net)
           more == saga.i < Len(saga.order.items)
       IN  /\ inventory' = out.inventory
           /\ reservations' = out.reservations
           /\ saga' = [saga EXCEPT
                         !.calls = Append(@, Request("Release", item, saga.order.id,
                                                 "discarded")),
                         !.i = IF more THEN @ + 1 ELSE 1,
                         !.pc = IF more THEN "release" ELSE "update"]
    /\ UNCHANGED <<seqVars, conVars, orders, got>>

\* Faulty variant of the end of CreateOrder: it returns the last reservation
\* error.
MutUpdateReturnsLastError(dbOk) ==
    /\ saga.pc = "update"
    /\ LET failed == Len(saga.reservationErrors) > 0
           order == [saga.order EXCEPT
                        !.status = IF failed THEN "rejected" ELSE "confirmed"]
       IN  /\ orders' = IF dbOk THEN Update(orders, order) ELSE orders
           /\ saga' = [saga EXCEPT
                         !.pc = "returned",
                         !.order = order,
                         !.calls = Append(@, [op |-> "Update", p |-> order.status,
                                              q |-> 0, o |-> order.id,
                                              res |-> IF dbOk THEN "ok"
                                                      ELSE "UpdateFailed"]),
                         !.ret = IF failed
                                 THEN [err |-> saga.reservationErrors[
                                                   Len(saga.reservationErrors)],
                                       order |-> NoOrder]
                                 ELSE IF dbOk
                                      THEN [err |-> "nil", order |-> order]
                                      ELSE [err |-> "UpdateFailed", order |-> NoOrder]]
    /\ UNCHANGED <<ledgerVars, seqVars, conVars, got>>

\* The end of CreateOrder: the status is set, orderRepo.Update is called and
\* CreateOrder returns.  After a failed reservation the error of Update is
\* discarded and the first reservation error is returned.
UpdateOrder(dbOk) ==
    /\ saga.pc = "update"
    /\ LET failed == Len(saga.reservationErrors) > 0
           order == [saga.order EXCEPT
                        !.status = IF failed THEN "rejected" ELSE "confirmed"]
       IN  /\ orders' = IF dbOk THEN Update(orders, order) ELSE orders
           /\ saga' = [saga EXCEPT
                         !.pc = "returned",
                         !.order = order,
                         !.calls = Append(@, [op |-> "Update", p |-> order.status,
                                              q |-> 0, o |-> order.id,
                                              res |-> IF dbOk THEN "ok"
                                                      ELSE "UpdateFailed"]),
                         !.ret = IF failed
                                 THEN [err |-> saga.reservationErrors[1],
                                       order |-> NoOrder]
                                 ELSE IF dbOk
                                      THEN [err |-> "nil", order |-> order]
                                      ELSE [err |-> "UpdateFailed", order |-> NoOrder]]
    /\ UNCHANGED <<ledgerVars, seqVars, conVars, got>>

\* orderService.GetOrder, called after CreateOrder has returned.
GetOrder(id) ==
    /\ saga.pc = "returned"
    /\ got' = GetByID(orders, id)
    /\ UNCHANGED <<ledgerVars, seqVars, conVars, orders, saga>>

SagaNext ==
    \/ /\ saga.pc = "idle"
       /\ \E req \in CreateOrderRequest, id \in Orders, dbOk \in BOOLEAN :
              CreateOrder(req, id, dbOk)
    \/ \E net \in NetOutcomes : ReserveItem(net)
    \/ \E net \in NetOutcomes : ReleaseItem(net)
    \/ \E dbOk \in BOOLEAN : UpdateOrder(dbOk)
    \/ \E id \in Orders : GetOrder(id)

SagaSpec == SagaInit /\ [][SagaNext]_vars

----------------------------------------------------------------------------
(* RaceSpec: two CreateOrder calls run concurrently, one per worker, as the *)
(* concurrent POSTs of TestRaceConditionOrders do.  Each Reserve or Release *)
(* call of a CreateOrder runs in the inventory service as in Spec (Service, *)
(* SelectForUpdate, Resume, Finish, FinishConflict); every call is          *)
(* delivered and answered, and the orders database answers every statement. *)
(* Here saga maps each worker to the CreateOrder call it runs.              *)

\* The order id that orderRepo.Create generates for the request of a worker.
OrderOf(w) == IF w = "w1" THEN "X" ELSE "Y"

\* The line items of the concurrent requests: one or all of product "A", or
\* the one unit of product "B".
RaceItems ==
    {[productID |-> "A", quantity |-> q, price |-> 1000] : q \in {1, MaxQty}}
    \cup {[productID |-> "B", quantity |-> 1, price |-> 1000]}

\* The concurrent requests: valid, a line item per product.
RaceRequests ==
    [userID : {"u1"},
     items : {l \in UNION {[1..n -> RaceItems] : n \in 1..MaxItems} :
                 \A i, j \in DOMAIN l : l[i].productID = l[j].productID => i = j}]

RaceInit ==
    /\ \E qa \in {1, MaxStock} : SeedLedger(qa)
    /\ InitSeqVars
    /\ InitConVars
    /\ orders = <<>>
    /\ saga = [w \in Workers |-> NoSaga]
    /\ got = NoResult

\* CreateOrder of worker w up to its first Reserve call.
WorkerCreateOrder(w, req) ==
    /\ saga[w].pc = "idle"
    /\ OrderOf(w) \notin DOMAIN orders
    /\ IF validateCreateOrderRequest(req) /= "nil"
       THEN /\ saga' = [saga EXCEPT ![w] =
                          [@ EXCEPT !.pc = "returned", !.req = req,
                                    !.before = Snapshot,
                                    !.ret = [err |-> "ValidationError",
                                             order |-> NoOrder]]]
            /\ UNCHANGED orders
       ELSE LET order == [id |-> OrderOf(w),
                          userID |-> req.userID,
                          status |-> "pending",
                          items |-> [i \in 1..Len(req.items) |->
                                        [productID |-> req.items[i].productID,
                                         quantity |-> req.items[i].quantity,
                                         price |-> req.items[i].price]]]
            IN  IF ~Int4Fits(order)
                THEN /\ saga' = [saga EXCEPT ![w] =
                                   [@ EXCEPT !.pc = "returned", !.req = req,
                                             !.before = Snapshot,
                                             !.ret = [err |-> "CreateFailed",
                                                      order |-> NoOrder]]]
                     /\ UNCHANGED orders
                ELSE /\ orders' = Create(orders, order)
                     /\ saga' = [saga EXCEPT ![w] =
                                   [@ EXCEPT !.pc = "reserve", !.req = req,
                                             !.order = order, !.i = 1,
                                             !.before = Snapshot]]
    /\ UNCHANGED <<ledgerVars, seqVars, conVars, got>>

\* The next call of the reservation loop or of the compensation loop of
\* worker w reaches the inventory service.
SendCall(w) ==
    /\ saga[w].pc \in {"reserve", "release"}
    /\ pc[w] = "idle"
    /\ LET item == saga[w].order.items[saga[w].i]
       IN  Service(w, IF saga[w].pc = "reserve" THEN "Reserve" ELSE "Release",
                   item.productID, Int32(item.quantity), saga[w].order.id)

\* Faulty variant: a Reserve call aborted by a serialization failure is made
\* again.
MutRetryOnConflict(w) ==
    /\ saga[w].pc \in {"reserve", "release"}
    /\ pc[w] = "done"
    /\ LET s == saga[w]
           item == s.order.items[s.i]
           reserving == s.pc = "reserve"
           retry == reserving /\ res[w] = "TransactionConflict"
           errs == IF reserving /\ res[w] /= "ok" /\ ~retry
                   THEN Append(s.reservationErrors, res[w])
                   ELSE s.reservationErrors
           more == s.i < Len(s.order.items)
       IN  saga' = [saga EXCEPT ![w] =
                      [s EXCEPT
                         !.reservationErrors = errs,
                         !.calls = Append(@, IF reserving
                                             THEN Request("Reserve", item, s.order.id,
                                                          res[w])
                                             ELSE Request("Release", item, s.order.id,
                                                          "discarded")),
                         !.i = IF retry THEN @ ELSE IF more THEN @ + 1 ELSE 1,
                         !.pc = IF more \/ retry THEN s.pc
                                ELSE IF reserving /\ Len(errs) > 0 THEN "release"
                                     ELSE "update"]]
    /\ pc' = [pc EXCEPT ![w] = "idle"]
    /\ UNCHANGED <<ledgerVars, seqVars, orders, got, call, res, stale, ssi, scan,
                   inTx, fresh>>

\* The call of worker w returns: a Reserve error is appended to
\* reservationErrors, a Release error is discarded, and the loop goes on.
ReceiveReply(w) ==
    /\ saga[w].pc \in {"reserve", "release"}
    /\ pc[w] = "done"
    /\ LET s == saga[w]
           item == s.order.items[s.i]
           reserving == s.pc = "reserve"
           errs == IF reserving /\ res[w] /= "ok"
                   THEN Append(s.reservationErrors, res[w])
                   ELSE s.reservationErrors
           more == s.i < Len(s.order.items)
       IN  saga' = [saga EXCEPT ![w] =
                      [s EXCEPT
                         !.reservationErrors = errs,
                         !.calls = Append(@, IF reserving
                                             THEN Request("Reserve", item, s.order.id,
                                                          res[w])
                                             ELSE Request("Release", item, s.order.id,
                                                          "discarded")),
                         !.i = IF more THEN @ + 1 ELSE 1,
                         !.pc = IF more THEN s.pc
                                ELSE IF reserving /\ Len(errs) > 0 THEN "release"
                                     ELSE "update"]]
    /\ pc' = [pc EXCEPT ![w] = "idle"]
    /\ UNCHANGED <<ledgerVars, seqVars, orders, got, call, res, stale, ssi, scan,
                   inTx, fresh>>

\* Faulty variant: the order is confirmed whatever the Reserve calls returned.
MutUpdateAlwaysConfirms(w) ==
    /\ saga[w].pc = "update"
    /\ LET s == saga[w]
           order == [s.order EXCEPT !.status = "confirmed"]
       IN  /\ orders' = Update(orders, order)
           /\ saga' = [saga EXCEPT ![w] =
                         [s EXCEPT
                            !.pc = "returned",
                            !.order = order,
                            !.calls = Append(@, [op |-> "Update", p |-> order.status,
                                                 q |-> 0, o |-> order.id,
                                                 res |-> "ok"]),
                            !.ret = [err |-> "nil", order |-> order]]]
    /\ UNCHANGED <<ledgerVars, seqVars, conVars, got>>

\* The end of CreateOrder of worker w: status, orderRepo.Update, return.
WorkerUpdateOrder(w) ==
    /\ saga[w].pc = "update"
    /\ LET s == saga[w]
           failed == Len(s.reservationErrors) > 0
           order == [s.order EXCEPT
                        !.status = IF failed THEN "rejected" ELSE "confirmed"]
       IN  /\ orders' = Update(orders, order)
           /\ saga' = [saga EXCEPT ![w] =
                         [s EXCEPT
                            !.pc = "returned",
                            !.order = order,
                            !.calls = Append(@, [op |-> "Update", p |-> order.status,
                                                 q |-> 0, o |-> order.id,
                                                 res |-> "ok"]),
                            !.ret = IF failed
                                    THEN [err |-> s.reservationErrors[1],
                                          order |-> NoOrder]
                                    ELSE [err |-> "nil", order |-> order]]]
    /\ UNCHANGED <<ledgerVars, seqVars, conVars, got>>

RaceNext ==
    \E w \in Workers :
        \/ /\ saga[w].pc = "idle"
           /\ \E req \in RaceRequests : WorkerCreateOrder(w, req)
        \/ SendCall(w)
        \/ SelectForUpdate(w)
        \/ Resume(w)
        \/ Finish(w)
        \/ FinishConflict(w)
        \/ ReceiveReply(w)
        \/ WorkerUpdateOrder(w)

RaceSpec == RaceInit /\ [][RaceNext]_vars

----------------------------------------------------------------------------
(* LateSpec: one CreateOrder call whose Reserve requests can outlive the    *)
(* client's deadline.  The client gives up after five seconds and           *)
(* CreateOrder goes on, while the request is still on its way to the        *)
(* inventory service, whose handler runs it under a deadline of its own     *)
(* that starts when the request arrives.  All other calls are answered.     *)
(* A request on its way is carried by a worker at position "sent".          *)

\* The client's deadline passes before the Reserve request of item i has
\* been run: the loop records the timeout and goes on, the request stays on
\* its way, carried by worker w.
ReserveItemLate(w) ==
    /\ saga.pc = "reserve"
    /\ pc[w] = "idle"
    /\ LET item == saga.order.items[saga.i]
           more == saga.i < Len(saga.order.items)
       IN  /\ call' = [call EXCEPT ![w] = [op |-> "Reserve", p |-> item.productID,
                                            q |-> Int32(item.quantity),
                                            o |-> saga.order.id]]
           /\ saga' = [saga EXCEPT
                         !.reservationErrors = Append(@, "Timeout"),
                         !.calls = Append(@, Request("Reserve", item, saga.order.id,
                                                     "Timeout")),
                         !.i = IF more THEN @ + 1 ELSE 1,
                         !.pc = IF more THEN "reserve" ELSE "release"]
    /\ pc' = [pc EXCEPT ![w] = "sent"]
    /\ UNCHANGED <<ledgerVars, seqVars, orders, got, res, stale, ssi, scan, inTx, fresh>>

\* The request carried by worker w arrives and InventoryServer.ReserveStock
\* runs it; nobody waits for its answer.
ArriveLate(w) ==
    /\ pc[w] = "sent"
    /\ LET c == call[w]
           out == SvcReserveStock(inventory, reservations, c.p, c.q, c.o)
       IN  /\ inventory' = out.inventory
           /\ reservations' = out.reservations
           /\ res' = [res EXCEPT ![w] = out.res]
    /\ pc' = [pc EXCEPT ![w] = "done"]
    /\ UNCHANGED <<seqVars, sagaVars, call, stale, ssi, scan, inTx, fresh>>

LateNext ==
    \/ /\ saga.pc = "idle"
       /\ \E req \in RaceRequests : CreateOrder(req, "X", TRUE)
    \/ ReserveItem("delivered")
    \/ \E w \in Workers : ReserveItemLate(w)
    \/ \E w \in Workers : ArriveLate(w)
    \/ ReleaseItem("delivered")
    \/ UpdateOrder(TRUE)

LateSpec == SagaInit /\ [][LateNext]_vars

----------------------------------------------------------------------------
(* NarrowSpec: one CreateOrder call, as in SagaSpec, for requests whose     *)
(* quantities run through the narrow range and once around it.              *)

WideRequests ==
    [userID : {"u1"},
     items : UNION {[1..n -> [productID : Stocked,
                              quantity : 1..(2^Int32Bits + MaxQty),
                              price : {1000}]] : n \in 1..MaxItems}]

NarrowNext ==
    \/ /\ saga.pc = "idle"
       /\ \E req \in WideRequests, dbOk \in BOOLEAN : CreateOrder(req, "X", dbOk)
    \/ \E net \in NetOutcomes : ReserveItem(net)
    \/ \E net \in NetOutcomes : ReleaseItem(net)
    \/ \E dbOk \in BOOLEAN : UpdateOrder(dbOk)

NarrowSpec == SagaInit /\ [][NarrowNext]_vars

----------------------------------------------------------------------------
(* Properties.                                                              *)

Ledger == [inventory |-> inventory, reservations |-> reservations]
Min(a, b) == IF a < b THEN a ELSE b
SameRequest(a, b) == a.op = b.op /\ a.p = b.p /\ a.q = b.q /\ a.o = b.o
Available(inv, p) == inv[p].quantity - inv[p].reserved

\* C1: in every reachable state of the concurrent system every inventory
\* row satisfies 0 <= reserved <= quantity.
C1_ReservedWithinQuantity ==
    \A p \in DOMAIN inventory :
        0 <= inventory[p].reserved /\ inventory[p].reserved <= inventory[p].quantity

\* The whole stock of "A" is reserved, both orders hold part of it, and a
\* Release has completed.
C1_Witness ==
    /\ inventory["A"].reserved = inventory["A"].quantity
    /\ ReservedBy(reservations, "X", "A") > 0
    /\ ReservedBy(reservations, "Y", "A") > 0
    /\ \E w \in Workers : pc[w] = "done" /\ call[w].op = "Release" /\ res[w] = "ok"

\* The two first calls of the workers are Reserve(p, 1, .) by different
\* orders on a product with quantity 1, and both have returned; nothing else
\* has run since the initial ledger (reserved = 0, no reservation row).
RaceOnLastUnit(p) ==
    /\ fresh
    /\ inventory[p].quantity = 1
    /\ \A w \in Workers :
          pc[w] = "done" /\ call[w].op = "Reserve" /\ call[w].p = p /\ call[w].q = 1
    /\ call["w1"].o /= call["w2"].o

\* C2 as claimed: the race for the last unit ends with exactly one success
\* and one InsufficientStock failure.
C2_OneOkOneInsufficient ==
    \A p \in Stocked :
        RaceOnLastUnit(p) => {res["w1"], res["w2"]} = {"ok", "InsufficientStock"}

\* C2 amended: the race for the last unit ends with exactly one success; the
\* other call fails with InsufficientStock or with a serialization failure.
C2_ExactlyOneSucceeds ==
    \A p \in Stocked :
        RaceOnLastUnit(p) =>
            \E w \in Workers :
                /\ res[w] = "ok"
                /\ \A v \in Others(w) :
                      res[v] \in {"InsufficientStock", "TransactionConflict"}

\* The race was decided inside the transaction of the loser.
C2_Witness ==
    \E p \in Stocked :
        /\ RaceOnLastUnit(p)
        /\ \E w \in Workers : res[w] = "InsufficientStock" /\ inTx[w]
        /\ inventory[p].reserved = 1

\* The last two calls are Reserve with the same product, quantity and order.
ReserveRepeated ==
    /\ last.op = "Reserve"
    /\ SameRequest(last, prior)

\* C3: Reserve(p, q, X) twice in a row leaves the ledger that one call leaves.
C3_ReserveTwiceSameLedger ==
    ReserveRepeated => Ledger = pre

\* Both calls succeeded and the order holds q.
C3_Witness ==
    /\ ReserveRepeated
    /\ prior.res = "ok"
    /\ last.res = "ok"
    /\ ReservedBy(reservations, last.o, last.p) = last.q

\* C4 as claimed: after a successful Reserve(p, q, X) the repeated call
\* succeeds (delta = 0) and changes nothing.
C4_RepeatSucceeds ==
    (ReserveRepeated /\ prior.res = "ok") => (last.res = "ok" /\ Ledger = pre)

\* C5: Release(p, q, X) decreases reserved of p by min(q, holding of X),
\* and reserved stays non-negative.
C5_ReleaseBound ==
    (last.op = "Release" /\ last.p \in Stocked) =>
        LET r == ReservedBy(pre.reservations, last.o, last.p)
        IN  /\ inventory[last.p].reserved =
                   pre.inventory[last.p].reserved - Min(last.q, r)
            /\ inventory[last.p].reserved >= 0

\* An order released more than it held while another order held stock too.
C5_Witness ==
    /\ last.op = "Release"
    /\ last.p \in Stocked
    /\ ReservedBy(pre.reservations, last.o, last.p) > 0
    /\ last.q > ReservedBy(pre.reservations, last.o, last.p)
    /\ pre.inventory[last.p].reserved > ReservedBy(pre.reservations, last.o, last.p)

\* The last call is an accepted Release by an order that holds nothing of p.
ReleaseWithoutHolding ==
    /\ last.op = "Release"
    /\ last.p \in Stocked
    /\ last.q > 0
    /\ ReservedBy(pre.reservations, last.o, last.p) = 0

\* C6: Release by an order that holds nothing of p succeeds and leaves the
\* inventory row and every reservation row unchanged.
C6_NoopRelease ==
    ReleaseWithoutHolding => (last.res = "ok" /\ Ledger = pre)

\* The no-op release ran while another order held stock of the product.
C6_Witness ==
    /\ ReleaseWithoutHolding
    /\ pre.inventory[last.p].reserved >= last.q
    /\ last.res = "ok"

\* Reserve(p, q1, X) succeeded and the next call is Reserve(p, q2, X) with
\* 0 < q2 < q1.
ShrinkingReReserve ==
    /\ last.op = "Reserve" /\ prior.op = "Reserve"
    /\ prior.res = "ok"
    /\ last.p = prior.p /\ last.o = prior.o
    /\ 0 < last.q /\ last.q < prior.q

\* C7 as claimed: the re-reservation to a smaller quantity lowers reserved by
\* q1 - q2 and the reservation row reads q2.
C7_ShrinkByReReserve ==
    ShrinkingReReserve =>
        /\ inventory[last.p].reserved =
               pre.inventory[last.p].reserved - (prior.q - last.q)
        /\ ReservedBy(reservations, last.o, last.p) = last.q

\* C7 amended: the re-reservation to a smaller quantity fails and the ledger
\* stays as the first call left it; the reservation row still reads q1.
C7_ShrinkRefused ==
    ShrinkingReReserve =>
        /\ last.res \in {"InvalidReservation", "InsufficientStock"}
        /\ Ledger = pre
        /\ ReservedBy(reservations, last.o, last.p) = prior.q

\* The smaller re-reservation was refused as an invalid reservation.
C7_Witness ==
    /\ ShrinkingReReserve
    /\ last.res = "InvalidReservation"

\* The last call is an accepted Reserve(p, q, X) where X held more than q
\* and at least q units were available.
ReserveBelowHolding ==
    /\ last.op = "Reserve"
    /\ last.p \in Stocked
    /\ last.q > 0
    /\ ReservedBy(pre.reservations, last.o, last.p) > last.q
    /\ Available(pre.inventory, last.p) >= last.q

\* C8: such a Reserve fails with InvalidReservation and changes nothing.
C8_InvalidReservation ==
    ReserveBelowHolding => (last.res = "InvalidReservation" /\ Ledger = pre)

\* The refused call did not directly follow the reservation it undercuts.
C8_Witness ==
    /\ ReserveBelowHolding
    /\ prior.op /= "Reserve"
    /\ last.res = "InvalidReservation"

\* C9: when the check inside the Reserve transaction finds
\* quantity - reserved < q, the call fails with InsufficientStock and no
\* inventory or reservation row changes.
C9_InsufficientInTx ==
    [][\A w \in Workers :
          (/\ pc[w] = "locked" /\ pc'[w] = "done"
           /\ call[w].op = "Reserve"
           /\ scan[w].found
           /\ scan[w].quantity - scan[w].reserved < call[w].q)
          => (/\ res'[w] = "InsufficientStock"
              /\ inventory' = inventory
              /\ reservations' = reservations)]_vars

\* A Reserve passed the service's CheckStock and was refused by the check
\* inside its transaction.
C9_Witness ==
    \E w \in Workers :
        /\ pc[w] = "done" /\ inTx[w]
        /\ call[w].op = "Reserve"
        /\ res[w] = "InsufficientStock"
        /\ Available(inventory, call[w].p) < call[w].q

\* C10 as claimed: Reserve on a product without inventory row fails with
\* NotFound (not InsufficientStock) and creates no reservation row.
C10_NotFound ==
    (last.op = "Reserve" /\ last.p \notin Stocked /\ last.q > 0) =>
        (last.res = "NotFound" /\ reservations = pre.reservations)

----------------------------------------------------------------------------
(* Properties of the order service.                                         *)

\* The calls of one kind that the current CreateOrder call has made so far.
Calls(op) == SelectSeq(saga.calls, LAMBDA c : c.op = op)

\* CreateOrder has returned for an order with items [A, B] whose Reserve for
\* A succeeded and whose Reserve for B failed for insufficient stock.
PartialFailure ==
    /\ saga.pc = "returned"
    /\ Len(saga.order.items) = 2
    /\ saga.order.items[1].productID = "A"
    /\ saga.order.items[2].productID = "B"
    /\ Len(saga.calls) >= 2
    /\ saga.calls[1].res = "ok"
    /\ saga.calls[2].res = "InsufficientStock"

\* C11 as claimed: after such a partial failure CreateOrder has returned an
\* error, the stored status of the order is rejected, and reserved of A is
\* back at its value before the call.
C11_SagaAtomicity ==
    PartialFailure =>
        /\ saga.ret.err /= "nil"
        /\ saga.ret.order = NoOrder
        /\ orders[saga.order.id].status = "rejected"
        /\ inventory["A"].reserved = saga.before.inventory["A"].reserved

\* CreateOrder has persisted its order and has returned.
PersistedAndReturned ==
    /\ saga.pc = "returned"
    /\ saga.order.id \in DOMAIN orders

\* C12 as claimed: once CreateOrder has persisted an order and returned, with
\* an order or with an error, the stored status of that order is confirmed or
\* rejected, never pending.
C12_NeverLeftPending ==
    PersistedAndReturned =>
        orders[saga.order.id].status \in {"confirmed", "rejected"}

\* C13: the stored status of an order only changes from pending to confirmed
\* or from pending to rejected, an order is first stored as pending, and no
\* stored order disappears.
C13_StatusTransitions ==
    [][/\ DOMAIN orders \subseteq DOMAIN orders'
       /\ \A o \in DOMAIN orders' :
             IF o \notin DOMAIN orders
             THEN orders'[o].status = "pending"
             ELSE \/ orders'[o].status = orders[o].status
                  \/ /\ orders[o].status = "pending"
                     /\ orders'[o].status \in {"confirmed", "rejected"}]_vars

\* The new order has left pending while the earlier order is still stored
\* as confirmed.
C13_Witness ==
    /\ PersistedAndReturned
    /\ orders[saga.order.id].status = "rejected"
    /\ \E o \in DOMAIN orders : o /= saga.order.id /\ orders[o].status = "confirmed"

\* CreateOrder has made its last Reserve call and every Reserve succeeded.
AllReserved ==
    /\ saga.pc \in {"update", "returned"}
    /\ saga.order.id \in DOMAIN orders
    /\ Len(saga.reservationErrors) = 0
    /\ Len(Calls("Reserve")) = Len(saga.req.items)

\* The line items of an order, as (product, quantity, price) triples, are
\* the submitted ones in the submitted order.
SameItems(items, submitted) ==
    /\ Len(items) = Len(submitted)
    /\ \A k \in 1..Len(submitted) :
          /\ items[k].productID = submitted[k].productID
          /\ items[k].quantity = submitted[k].quantity
          /\ items[k].price = submitted[k].price

\* C14 as claimed: when every Reserve succeeded, CreateOrder has stored the
\* status confirmed and returns the order with status confirmed, the
\* submitted user id and the submitted items in their order, and has issued
\* no Release call.
C14_ConfirmedOrder ==
    (AllReserved /\ saga.pc = "returned") =>
        /\ orders[saga.order.id].status = "confirmed"
        /\ saga.ret.err = "nil"
        /\ saga.ret.order.status = "confirmed"
        /\ saga.ret.order.userID = saga.req.userID
        /\ SameItems(saga.ret.order.items, saga.req.items)
        /\ Len(Calls("Release")) = 0

\* CreateOrder has returned and at least one of its Reserve calls failed.
SomeReserveFailed ==
    /\ saga.pc = "returned"
    /\ Len(saga.reservationErrors) > 0

MalformedRequest ==
    \/ saga.req.userID = ""
    \/ saga.req.items = <<>>
    \/ \E k \in DOMAIN saga.req.items :
          \/ saga.req.items[k].productID = ""
          \/ ~(saga.req.items[k].quantity > 0)
          \/ ~(saga.req.items[k].price > 0)

\* C16: CreateOrder on a malformed request returns a validation error and
\* no order, persists nothing and calls neither Reserve nor Release: the
\* orders table and the ledger are as the call found them.
C16_ValidationNoEffect ==
    (saga.pc /= "idle" /\ MalformedRequest) =>
        /\ saga.pc = "returned"
        /\ saga.ret.err = "ValidationError"
        /\ saga.ret.order = NoOrder
        /\ saga.calls = <<>>
        /\ orders = saga.before.orders
        /\ inventory = saga.before.inventory
        /\ reservations = saga.before.reservations

\* The request was refused for its second item alone: the user id and the
\* first item are valid and the stock would cover the first item.
C16_Witness ==
    /\ saga.pc = "returned"
    /\ saga.ret.err = "ValidationError"
    /\ saga.req.userID /= ""
    /\ Len(saga.req.items) = 2
    /\ saga.req.items[1].productID = "A"
    /\ saga.req.items[1].quantity = 1
    /\ saga.req.items[1].price > 0
    /\ saga.req.items[2].price <= 0
    /\ CheckStock(inventory, "A", 1)

\* CreateOrder has returned and one of its Reserve calls timed out or could
\* not reach the inventory service.
ReserveUnanswered ==
    /\ saga.pc = "returned"
    /\ \E k \in DOMAIN saga.calls :
          /\ saga.calls[k].op = "Reserve"
          /\ saga.calls[k].res \in {"Timeout", "PeerUnavailable"}

\* C17 as claimed: after a Reserve that timed out or could not reach the
\* inventory service, CreateOrder has released every item and rejected the
\* order, and nothing is left reserved for the order.
C17_UnansweredCompensated ==
    ReserveUnanswered =>
        /\ Len(Calls("Release")) = Len(saga.req.items)
        /\ saga.order.status = "rejected"
        /\ \A p \in Stocked : ReservedBy(reservations, saga.order.id, p) = 0
        /\ \A p \in Stocked :
              inventory[p].reserved = saga.before.inventory[p].reserved

\* The last call is a CheckStock request that passed the service's
\* validation.
Checked ==
    /\ last.op = "Check"
    /\ last.q > 0

\* C18: CheckAvailability(p, q) answers true exactly when p has an inventory
\* row with quantity - reserved >= q, answers false (not an error) when p has
\* no row, and changes no inventory or reservation row.
C18_CheckAvailability ==
    Checked =>
        /\ last.res \in {"true", "false"}
        /\ (last.res = "true") <=>
               /\ last.p \in DOMAIN pre.inventory
               /\ pre.inventory[last.p].quantity - pre.inventory[last.p].reserved
                      >= last.q
        /\ (last.p \notin DOMAIN pre.inventory => last.res = "false")
        /\ Ledger = pre

\* The answer was false although the row's quantity covers the request:
\* the units reserved by an order made the difference.
C18_Witness ==
    /\ Checked
    /\ last.p \in Stocked
    /\ last.res = "false"
    /\ inventory[last.p].quantity >= last.q
    /\ inventory[last.p].reserved > 0

\* CreateOrder has created an order and returned, and GetOrder has then
\* returned the order with the created id.
RoundTrip ==
    /\ PersistedAndReturned
    /\ got.err = "nil"
    /\ got.order.id = saga.order.id

\* C19 as claimed: the order GetOrder returns has the submitted user id,
\* exactly the submitted items (product, quantity, price) and the final
\* status that CreateOrder computed.
C19_RoundTrip ==
    RoundTrip =>
        /\ got.order.userID = saga.req.userID
        /\ SameItems(got.order.items, saga.req.items)
        /\ got.order.status = saga.order.status

\* CreateOrder was called with a well-formed request of which CheckStock, at
\* the time of the call, reports an item unavailable.
ReportedUnavailable ==
    /\ saga.pc /= "idle"
    /\ ~MalformedRequest
    /\ \E k \in DOMAIN saga.req.items :
          ~CheckStock(saga.before.inventory, saga.req.items[k].productID,
                      saga.req.items[k].quantity)

\* C20 as claimed: when the stock of a requested item is reported
\* unavailable, CreateOrder persists no order and issues no Reserve call,
\* and it returns an error and no order.
C20_UnavailableNotPersisted ==
    ReportedUnavailable =>
        /\ orders = saga.before.orders
        /\ Len(Calls("Reserve")) = 0
        /\ saga.pc = "returned"
        /\ saga.ret.err /= "nil"
        /\ saga.ret.order = NoOrder

----------------------------------------------------------------------------
(* Properties of concurrent CreateOrder calls.                              *)

\* Both concurrent requests have returned.
BothReturned == \A w \in Workers : saga[w].pc = "returned"

\* Both requests order product p only, and the seeded stock of p covers the
\* sum of their quantities (no other order holds any of it).
SameProductCovered(p) ==
    /\ \A w \in Workers :
           /\ Len(saga[w].req.items) = 1
           /\ saga[w].req.items[1].productID = p
    /\ saga["w1"].req.items[1].quantity + saga["w2"].req.items[1].quantity
           <= inventory[p].quantity

\* C21: when concurrent CreateOrder requests order the same product and the
\* available stock covers the sum of their quantities, every request
\* succeeds: each order is returned and stored confirmed.
C21_ConcurrentOrdersSucceed ==
    \A p \in Stocked :
        (BothReturned /\ SameProductCovered(p)) =>
            \A w \in Workers :
                /\ saga[w].ret.err = "nil"
                /\ orders[OrderOf(w)].status = "confirmed"

\* The calls of kind op that the CreateOrder call of worker w has made.
CallsOf(w, op) == SelectSeq(saga[w].calls, LAMBDA c : c.op = op)

\* C28: for an order of n line items that passed validation and was
\* persisted, CreateOrder makes exactly n Reserve calls, one per line item and
\* none of them again (also when a call was aborted by a serialization
\* conflict), then no Release call (all Reserves succeeded) or exactly n
\* Release calls (one failed), then the one Update, and returns.
C28_BoundedCalls ==
    \A w \in Workers :
        saga[w].order.id \in DOMAIN orders =>
            LET s == saga[w]
                n == Len(s.order.items)
                failed == \E k \in DOMAIN s.calls :
                              s.calls[k].op = "Reserve" /\ s.calls[k].res /= "ok"
                reserves == Len(CallsOf(w, "Reserve"))
                releases == Len(CallsOf(w, "Release"))
                updates == Len(CallsOf(w, "Update"))
            IN  /\ s.pc = "reserve" => reserves = s.i - 1 /\ releases = 0 /\ updates = 0
                /\ s.pc = "release" => reserves = n /\ releases = s.i - 1 /\ updates = 0
                                       /\ failed
                /\ s.pc \in {"update", "returned"} =>
                       /\ reserves = n
                       /\ releases = IF failed THEN n ELSE 0
                       /\ updates = IF s.pc = "returned" THEN 1 ELSE 0
                /\ \A k \in 1..Len(s.calls) :
                       s.calls[k].op = IF k <= n THEN "Reserve"
                                       ELSE IF k <= reserves + releases THEN "Release"
                                            ELSE "Update"
                /\ pc[w] /= "idle" =>
                       /\ s.pc \in {"reserve", "release"}
                       /\ call[w] = [op |-> IF s.pc = "reserve" THEN "Reserve"
                                            ELSE "Release",
                                     p |-> s.order.items[s.i].productID,
                                     q |-> s.order.items[s.i].quantity,
                                     o |-> s.order.id]

\* A CreateOrder call of two line items has returned after one of its Reserve
\* calls was aborted by a serialization conflict.
C28_Witness ==
    \E w \in Workers :
        /\ saga[w].pc = "returned"
        /\ Len(saga[w].order.items) = 2
        /\ \E k \in DOMAIN saga[w].calls :
               saga[w].calls[k].op = "Reserve"
               /\ saga[w].calls[k].res = "TransactionConflict"

\* Two orders of one unit of "A" and one unit of "B" each, in any line
\* order, are created over a stock of one unit of each product: the stock
\* fills either order alone.
CrossOrders ==
    /\ \A p \in Stocked : inventory[p].quantity = 1
    /\ \A w \in Workers :
           /\ Len(saga[w].req.items) = 2
           /\ \A k \in 1..2 : saga[w].req.items[k].quantity = 1

\* The order of worker w is stored with status st.
Stored(w, st) ==
    OrderOf(w) \in DOMAIN orders /\ orders[OrderOf(w)].status = st

----------------------------------------------------------------------------
(* Properties of the engine under concurrent calls.                         *)

\* The call of worker w returns in this step.
Returns(w) == pc'[w] = "done" /\ (pc[w] /= "done" \/ call'[w] /= call[w])

\* C22: a Reserve or Release call that returns an error (absent row,
\* insufficient stock, invalid reservation, failed statement, failed commit)
\* leaves every inventory and reservation row as it was; the tables change
\* only in the commit of a call that returns success, and then the reserved
\* counter and the reservation row of the call change together.
C22_ErrorLeavesLedger ==
    [][/\ \A w \in Workers :
              (Returns(w) /\ res'[w] /= "ok") =>
                  (inventory' = inventory /\ reservations' = reservations)
       /\ (inventory' /= inventory \/ reservations' /= reservations) =>
              \E w \in Workers :
                  /\ pc[w] = "locked" /\ pc'[w] = "done" /\ res'[w] = "ok"
                  /\ inventory'[call[w].p].reserved - inventory[call[w].p].reserved
                         = ReservedBy(reservations', call[w].o, call[w].p)
                           - ReservedBy(reservations, call[w].o, call[w].p)
      ]_vars

\* A transaction was aborted by a serialization failure after another one
\* had changed the tables.
C22_Witness ==
    \E w \in Workers :
        /\ pc[w] = "done" /\ inTx[w] /\ res[w] = "TransactionConflict"
        /\ reservations /= <<>>

\* The sum of the quantities of the rows keys of the reservations table.
RECURSIVE SumRows(_, _)
SumRows(resv, keys) ==
    IF keys = {}
    THEN 0
    ELSE LET k == CHOOSE x \in keys : TRUE
         IN  resv[k] + SumRows(resv, keys \ {k})

\* The total of the reservation rows of product p.
ReservedTotal(resv, p) == SumRows(resv, {k \in DOMAIN resv : k[2] = p})

\* C23: in every reachable state, for every product, inventory.reserved is
\* the sum of the quantities of the reservation rows of the product.
C23_ReservedIsSumOfRows ==
    \A p \in DOMAIN inventory :
        inventory[p].reserved = ReservedTotal(reservations, p)

\* Both orders hold product "A" and a Release has just taken part of it back.
C23_Witness ==
    /\ <<"X", "A">> \in DOMAIN reservations
    /\ <<"Y", "A">> \in DOMAIN reservations
    /\ \E w \in Workers :
           /\ pc[w] = "done" /\ call[w].op = "Release" /\ call[w].p = "A"
           /\ res[w] = "ok"
           /\ inventory["A"].reserved < MaxStock

\* C24: the outcome of a Reserve request is decided only by the availability
\* check inside the locked transaction: a valid Reserve call that was accepted
\* or refused got its answer from the repository transaction, never from the
\* read-only CheckStock query.
C24_DecidedInTransaction ==
    \A w \in Workers :
        (/\ pc[w] = "done"
         /\ call[w].op = "Reserve"
         /\ ValidArgs(call[w].p, call[w].q, call[w].o)) => inTx[w]

\* The service method of a valid Reserve request of worker w runs in this
\* step, up to its return or to the repository call.
ReserveArrives(w) ==
    /\ pc[w] \in {"idle", "done"}
    /\ call'[w].op = "Reserve"
    /\ ValidArgs(call'[w].p, call'[w].q, call'[w].o)
    /\ \/ pc'[w] = "begin"
       \/ /\ pc'[w] = "done"
          /\ (pc[w] = "idle" \/ call'[w] /= call[w] \/ res'[w] /= res[w]
                \/ inTx'[w] /= inTx[w])

\* C25: the inventory service's ReserveStock first asks CheckStock.  When the
\* product is not available in the requested quantity it returns
\* "insufficient stock" and the repository's ReserveStock is not invoked;
\* when it is available, the repository's ReserveStock is invoked.
C25_PreCheckThenRepository ==
    [][\A w \in Workers :
           ReserveArrives(w) =>
               LET c == call'[w]
               IN  IF inventory[c.p].quantity - inventory[c.p].reserved >= c.q
                   THEN pc'[w] = "begin"
                   ELSE /\ pc'[w] = "done"
                        /\ res'[w] = "InsufficientStock"
                        /\ ~inTx'[w]
                        /\ inventory' = inventory /\ reservations' = reservations
      ]_vars

\* One Reserve was refused by the service without a transaction, another got
\* the repository's own error.
C25_Witness ==
    \E w, v \in Workers :
        /\ pc[w] = "done" /\ call[w].op = "Reserve"
        /\ res[w] = "InsufficientStock" /\ ~inTx[w]
        /\ pc[v] = "done" /\ call[v].op = "Reserve"
        /\ res[v] = "InvalidReservation" /\ inTx[v]

----------------------------------------------------------------------------
(* Properties of the calls CreateOrder makes.                               *)

\* The order of the CreateOrder call was persisted.
Persisted == saga.order.id \in DOMAIN orders

\* C26: CreateOrder issues its Reserve calls one at a time in line-item
\* order, the next only after the previous one has returned, and it attempts
\* every line item, also after an earlier one has failed.
C26_ReserveInItemOrder ==
    Persisted =>
        LET items == saga.order.items
            made == IF saga.pc = "reserve" THEN saga.i - 1 ELSE Len(items)
        IN  /\ Len(saga.calls) >= made
            /\ saga.pc = "reserve" => Len(saga.calls) = made
            /\ \A k \in 1..made :
                   /\ saga.calls[k].op = "Reserve"
                   /\ saga.calls[k].p = items[k].productID
                   /\ saga.calls[k].q = items[k].quantity
                   /\ saga.calls[k].o = saga.order.id
            /\ \A k \in (made + 1)..Len(saga.calls) : saga.calls[k].op /= "Reserve"

\* The first Reserve failed and the second was still made, and succeeded.
C26_Witness ==
    /\ saga.pc = "returned"
    /\ Len(saga.order.items) >= 2
    /\ saga.calls[1].res /= "ok"
    /\ saga.calls[2].op = "Reserve"
    /\ saga.calls[2].res = "ok"

\* The positions in the call log of the Reserve calls that returned an error.
FailedReserves ==
    {k \in DOMAIN saga.calls : saga.calls[k].op = "Reserve" /\ saga.calls[k].res /= "ok"}

\* C27: when Reserve calls of an order fail, CreateOrder returns the error of
\* the earliest failing line item, with no order; the errors of the
\* compensating Release calls and of the status update are not returned.
C27_EarliestReserveError ==
    (saga.pc = "returned" /\ FailedReserves /= {}) =>
        LET first == CHOOSE k \in FailedReserves : \A j \in FailedReserves : k <= j
        IN  /\ saga.ret.err = saga.calls[first].res
            /\ saga.ret.order = NoOrder

\* Two Reserve calls failed with different errors, a compensating Release did
\* not get through (the order still holds stock) and the Update failed.
C27_Witness ==
    /\ saga.pc = "returned"
    /\ \E j, k \in FailedReserves : saga.calls[j].res /= saga.calls[k].res
    /\ \E p \in Stocked : ReservedBy(reservations, saga.order.id, p) > 0
    /\ \E k \in DOMAIN saga.calls :
           saga.calls[k].op = "Update" /\ saga.calls[k].res = "UpdateFailed"

\* C29: Release(p, q, X) changes no reservation row other than (X, p) and
\* lowers inventory.reserved of p by exactly the amount by which the
\* reservation of X shrinks; so the compensation of an order X never reduces
\* what another order holds.  Stated of every compensating Release call.
C29_ReleaseFrame ==
    [][saga.pc = "release" =>
           LET item == saga.order.items[saga.i]
               p == item.productID
               o == saga.order.id
               taken == ReservedBy(reservations, o, p) - ReservedBy(reservations', o, p)
           IN  /\ \A k \in (DOMAIN reservations \cup DOMAIN reservations') \ {<<o, p>>} :
                      /\ k \in DOMAIN reservations
                      /\ k \in DOMAIN reservations'
                      /\ reservations'[k] = reservations[k]
               /\ inventory[p].reserved - inventory'[p].reserved = taken
               /\ taken \in 0..item.quantity
               /\ inventory'[p].quantity = inventory[p].quantity
               /\ \A r \in DOMAIN inventory \ {p} : inventory'[r] = inventory[r]
      ]_vars

\* Order X was compensated with a Release of product "A", of which it held
\* nothing, while order Y holds its unit of "A".
C29_Witness ==
    /\ saga.pc = "returned"
    /\ \E k \in DOMAIN saga.calls :
           /\ saga.calls[k].op = "Reserve" /\ saga.calls[k].p = "A"
           /\ saga.calls[k].res = "InsufficientStock"
    /\ \E k \in DOMAIN saga.calls :
           saga.calls[k].op = "Release" /\ saga.calls[k].p = "A"
    /\ ReservedBy(reservations, "X", "A") = 0
    /\ ReservedBy(reservations, "Y", "A") = 1
    /\ inventory["A"].reserved = 1

\* C30: in every reachable state, an order whose stored status is rejected
\* holds no reservation row in the engine, also when its compensating
\* Release calls failed or timed out.
C30_RejectedHoldsNothing ==
    \A o \in DOMAIN orders :
        orders[o].status = "rejected" =>
            \A p \in Products : ReservedBy(reservations, o, p) = 0

----------------------------------------------------------------------------
(* Properties of what an order holds once CreateOrder has returned.         *)

\* Every Reserve call of the order succeeded and the Update of the confirmed
\* status failed.
ConfirmNotPersisted ==
    /\ AllReserved
    /\ saga.pc = "returned"
    /\ \E k \in DOMAIN saga.calls :
           saga.calls[k].op = "Update" /\ saga.calls[k].res = "UpdateFailed"

\* C31: when every Reserve call of an order succeeded and persisting the
\* confirmed status fails, CreateOrder returns an error and the stock
\* reserved for the order is released: the order reported as failed holds
\* no stock.
C31_FailedConfirmReleases ==
    ConfirmNotPersisted =>
        /\ saga.ret.err \notin {"nil", "none"}
        /\ \A p \in Products : ReservedBy(reservations, saga.order.id, p) = 0

\* The sum of the quantities of the line items of product p.
RECURSIVE ItemsTotal(_, _)
ItemsTotal(items, p) ==
    IF items = <<>>
    THEN 0
    ELSE (IF Head(items).productID = p THEN Head(items).quantity ELSE 0)
         + ItemsTotal(Tail(items), p)

\* C32: for every order stored as confirmed and every product, the
\* reservation the engine holds for (order, product) is the sum of the
\* quantities of the order's line items of that product, also when the order
\* has several line items of one product.
C32_HoldsSumOfItems ==
    \A o \in DOMAIN orders :
        orders[o].status = "confirmed" =>
            \A p \in Products :
                ReservedBy(reservations, o, p) = ItemsTotal(orders[o].items, p)

\* C33: a Reserve request that the saga gave up on after a timeout does not
\* take effect after the compensating Release of the same order and product
\* has been processed: once CreateOrder has returned a failure and no
\* request is on its way any more, the order holds no reservation.
C33_NoLateReservation ==
    (/\ saga.pc = "returned"
     /\ Persisted
     /\ saga.ret.err /= "nil"
     /\ \A w \in Workers : pc[w] /= "sent") =>
        \A p \in Products : ReservedBy(reservations, saga.order.id, p) = 0

----------------------------------------------------------------------------
(* Properties of the window between the Reserve calls of an order.          *)

\* The order of worker w is pending and holds a reservation for an earlier
\* line item and none for a later one.
PartlyReserved(w) ==
    /\ Stored(w, "pending")
    /\ \E j, k \in DOMAIN saga[w].order.items :
           /\ j < k
           /\ ReservedBy(reservations, OrderOf(w), saga[w].order.items[j].productID) > 0
           /\ ReservedBy(reservations, OrderOf(w), saga[w].order.items[k].productID) = 0

\* A Reserve request of worker v reaches the inventory service in this step.
ReserveReaches(v) ==
    pc[v] = "idle" /\ pc'[v] \in {"begin", "done"} /\ call'[v].op = "Reserve"

\* C35: a pending multi-item order can hold a reservation for an earlier line
\* item and none for a later one, and a concurrent Reserve of another order
\* then sees the stock reduced by that partial reservation: it is refused
\* exactly when the stock less all reservation rows, those of the pending
\* order included, does not cover it.
C35_PartialReservationVisible ==
    [][\A v, w \in Workers :
           (v /= w /\ PartlyReserved(w) /\ ReserveReaches(v)) =>
               LET c == call'[v]
               IN  (pc'[v] = "done" /\ res'[v] = "InsufficientStock")
                       <=> inventory[c.p].quantity - ReservedTotal(reservations, c.p) < c.q
      ]_vars

\* The order of w is pending and partly reserved, and the Reserve of another
\* order was refused for a product whose stock would have covered it without
\* the partial reservation.
C35_Witness ==
    \E v, w \in Workers :
        /\ v /= w
        /\ PartlyReserved(w)
        /\ pc[v] = "done" /\ call[v].op = "Reserve" /\ ~inTx[v]
        /\ res[v] = "InsufficientStock"
        /\ ReservedBy(reservations, OrderOf(w), call[v].p) > 0
        /\ inventory[call[v].p].quantity
               - (ReservedTotal(reservations, call[v].p)
                  - ReservedBy(reservations, OrderOf(w), call[v].p)) >= call[v].q

----------------------------------------------------------------------------
(* Properties of the rows of the ledger.                                    *)

\* C36: no reservation row has a quantity of 0 or less: a Release that
\* brings the holding of an order to 0 deletes the row, and the service
\* accepts a Reserve only with a positive quantity.
C36_RowsArePositive ==
    /\ \A k \in DOMAIN reservations : reservations[k] > 0
    /\ (last.op = "Reserve" /\ last.q <= 0) => last.res = "ValidationError"

\* A Release has just taken the whole holding of an order and its row is gone.
C36_Witness ==
    /\ last.op = "Release"
    /\ last.res = "ok"
    /\ <<last.o, last.p>> \in DOMAIN pre.reservations
    /\ <<last.o, last.p>> \notin DOMAIN reservations

\* C37: Reserve and Release on product p change inventory.quantity of no
\* product, and change neither the inventory row nor any reservation row of
\* a product other than p.
C37_OtherProductsUntouched ==
    (last.op \in {"Reserve", "Release"}) =>
        /\ DOMAIN inventory = DOMAIN pre.inventory
        /\ \A r \in DOMAIN inventory :
               /\ inventory[r].quantity = pre.inventory[r].quantity
               /\ r /= last.p => inventory[r] = pre.inventory[r]
        /\ \A k \in DOMAIN reservations \cup DOMAIN pre.reservations :
               k[2] /= last.p =>
                   /\ k \in DOMAIN reservations
                   /\ k \in DOMAIN pre.reservations
                   /\ reservations[k] = pre.reservations[k]

\* The last call changed the ledger of its product while another product is
\* reserved.
C37_Witness ==
    /\ last.op \in {"Reserve", "Release"}
    /\ last.res = "ok"
    /\ inventory[last.p].reserved /= pre.inventory[last.p].reserved
    /\ \E k \in DOMAIN reservations : k[2] /= last.p

----------------------------------------------------------------------------
(* Properties of the stored orders.                                         *)

\* C38: once an order is stored, its user id and its line items (product,
\* quantity, price) never change and it is never removed; a later write
\* changes only its status.
C38_OrderFieldsImmutable ==
    [][\A o \in DOMAIN orders :
           /\ o \in DOMAIN orders'
           /\ orders'[o].userID = orders[o].userID
           /\ orders'[o].items = orders[o].items]_vars

\* The status of the new order was updated; its stored price is the rounded
\* one of its creation, not the submitted one that CreateOrder still carries.
C38_Witness ==
    /\ PersistedAndReturned
    /\ orders[saga.order.id].status \in {"confirmed", "rejected"}
    /\ orders[saga.order.id].items /= saga.order.items

----------------------------------------------------------------------------
(* Properties of the quantities on the wire.                                *)

\* C39: the quantity the engine receives in the Reserve and the Release
\* request of a line item is the quantity recorded for that line item in the
\* order, for every positive quantity the order service accepts, the client
\* narrowing it to the 32-bit type before sending.
C39_QuantityOnTheWire ==
    Persisted =>
        LET items == orders[saga.order.id].items
            n == Len(items)
        IN  \A k \in DOMAIN saga.calls :
                saga.calls[k].op \in {"Reserve", "Release"} =>
                    saga.calls[k].q = items[IF k <= n THEN k ELSE k - n].quantity

\* The order with the largest quantity that fits was stored and its Reserve
\* and Release requests were sent.
C39_Witness ==
    /\ PersistedAndReturned
    /\ \E k \in DOMAIN saga.calls :
           saga.calls[k].op = "Reserve" /\ saga.calls[k].q = MaxInt32
    /\ \E k \in DOMAIN saga.calls :
           saga.calls[k].op = "Release" /\ saga.calls[k].q = MaxInt32

====
